---- MODULE Spec2Model ----
(***************************************************************************)
(* Order-Payment saga of nestjs-microservices: OrderService.createOrder    *)
(* and retryPayment (order-service), ProductService stock ledger, the      *)
(* opossum breaker 'payment-service' built by CircuitBreakerService, the   *)
(* DLQService dead-letter submission and the payment-service               *)
(* PaymentController / PaymentService.                                     *)
(*                                                                         *)
(* Node runs each handler single-threaded and yields at every await, so    *)
(* one action is the code between two awaits of one call.                  *)
(***************************************************************************)
EXTENDS Integers, Sequences, FiniteSets, TLC

\* ---------------------------------------------------------------- bounds
MaxCalls == 3
MaxActive == 2
InitStock == 1
MaxQty == 2
MaxFaults == 1
MaxAttempts == 4
MaxClock == 90000

\* Calls are numbered in the order they begin; a createOrder call's number is
\* the id of its order.  At most MaxActive calls are in flight at once, each in
\* one slot.
Calls == 1..MaxCalls
Slots == 1..MaxActive
Quantities == 1..MaxQty
ProductCodes == {"LAPTOP-001"}

\* ---------------------------------------------------------------- program constants
errorThresholdPercentage == 50
isSuccess == TRUE

\* Seeded product prices, in cents (the price column is decimal(10,2)).
price == [p \in ProductCodes |-> 199999]

\* const totalAmount = unitPrice * createOrderDto.quantity
TotalAmount_mut(unitPrice, quantity) == unitPrice * quantity + unitPrice

TotalAmount(unitPrice, quantity) == unitPrice * quantity

Amounts == {TotalAmount(price[p], q) : p \in ProductCodes, q \in Quantities}

VARIABLES
  stockQuantity,  \* products table: productCode -> stockQuantity
  orders,         \* orders table: order id -> row (status "none": no row)
  payments,       \* payments table: sequence of rows, id = index
  breaker,        \* the 'payment-service' breaker
  fallback,       \* whether the breaker has a fallback function registered
  payment_queue,  \* process_payment requests waiting at the payment service
  reply,          \* response message on its way back to the awaiting call
  payment_dlq,    \* envelopes placed on payment_dlq
  call,           \* per slot: position, local variables and history of the call in it
  started,        \* number of calls begun so far
  faults,         \* store / broker operations that have failed so far
  clock,          \* time in ms
  payment_retry_queue, \* retry envelopes waiting on payment_retry_queue
  settled,        \* per process_payment message: deliveries and settlements
  operator_log,   \* responses given by the operator endpoints
  evaluated,      \* verdicts logged by the dead-letter consumer
  unacked         \* payment_dlq deliveries the consumer has neither acked nor rejected

vars == <<stockQuantity, orders, payments, breaker, fallback, payment_queue,
          reply, payment_dlq, call, started, faults,
          clock, payment_retry_queue, settled, operator_log, evaluated, unacked>>

\* What the saga calls leave alone: time, the retry queue, the operator endpoints.
routerVars == <<clock, payment_retry_queue, operator_log, evaluated, unacked>>

\* process_payment requests: the sending call and its order reference.
Requests == [call : Calls, orderId : Calls, amount : Amounts]

NoReply == [status |-> "none", paymentId |-> 0]

Idle ==
  [kind |-> "none", pc |-> "idle", id |-> 0, orderId |-> 0, productCode |-> "",
   quantity |-> 0, read |-> 0, status |-> "", paymentId |-> 0,
   reserved |-> 0, restored |-> 0, incCalls |-> 0, sends |-> 0,
   firedIn |-> "", dispatch |-> "", dlq |-> "", stockBefore |-> 0,
   interfered |-> FALSE, err |-> "", amount |-> 0]

NoOrder ==
  [status |-> "none", productCode |-> "", quantity |-> 0, paymentId |-> 0,
   reserved |-> 0, restored |-> 0, unitPrice |-> 0, totalAmount |-> 0]

\* A process_payment message that has not been delivered yet.
Unsettled == [deliveries |-> 0, acks |-> 0, nacks |-> 0, requeues |-> 0]

Ended(c) == call[c].pc \in {"done", "threw"}
Active(c) == call[c].kind # "none" /\ ~Ended(c)

\* A call begins in the lowest free slot while the call budget lasts.
CanBegin(c) ==
  /\ call[c].pc = "idle"
  /\ started < MaxCalls
  /\ \A d \in Slots : d < c => call[d].pc # "idle"

\* A store or broker operation either succeeds or fails; failures are budgeted.
MayFail(ok) == ok \/ faults < MaxFaults
Charge(ok) == faults' = IF ok THEN faults ELSE faults + 1

Init ==
  /\ stockQuantity = [p \in ProductCodes |-> InitStock]
  /\ orders = [o \in Calls |-> NoOrder]
  /\ payments = <<>>
  /\ breaker = [state |-> "CLOSED", pendingClose |-> FALSE, fires |-> 0, failures |-> 0,
                trials |-> 0]
  /\ fallback = TRUE
  /\ payment_queue = {}
  /\ reply = [c \in Slots |-> NoReply]
  /\ payment_dlq = <<>>
  /\ call = [c \in Slots |-> Idle]
  /\ started = 0
  /\ faults = 0
  /\ clock = 0
  /\ payment_retry_queue = <<>>
  /\ settled = [k \in Calls |-> Unsettled]
  /\ operator_log = {}
  /\ evaluated = {}
  /\ unacked = <<>>

\* ---------------------------------------------------------------- breaker
\* opossum lets a call through when the circuit is closed or a half-open trial is pending.
BreakerAllows_mut(b) == TRUE

BreakerAllows(b) == b.state = "CLOSED" \/ b.pendingClose

\* Every fire() is counted; a call that passes takes the pending half-open trial.
Fired_mut(b) == [b EXCEPT !.fires = @ + 1]

Fired(b) == [b EXCEPT !.fires = @ + 1, !.pendingClose = FALSE]

\* The action (paymentClient.send) is invoked; trials counts the invocations
\* made since the circuit became half-open.
Invoked(b) == IF b.state = "HALF_OPEN" THEN [b EXCEPT !.trials = @ + 1] ELSE b

ErrorRateExceeded(b) == b.failures * 100 > errorThresholdPercentage * b.fires

\* A rejected or timed-out action: counted, and the circuit opens when half-open
\* or when the failure rate is above the threshold (the options set no volume
\* threshold, so the rate is evaluated from the first call on).
Failed(b) ==
  LET f == [b EXCEPT !.failures = @ + 1] IN
  IF ErrorRateExceeded(f) \/ f.state = "HALF_OPEN"
  THEN [f EXCEPT !.state = "OPEN", !.pendingClose = FALSE, !.trials = 0]
  ELSE f

Succeeded_mut(b) == Failed(b)

\* A resolved action closes a half-open circuit; the counters of the rolling
\* window are left as they are.
Succeeded(b) ==
  IF b.state = "HALF_OPEN"
  THEN [b EXCEPT !.state = "CLOSED", !.pendingClose = FALSE, !.trials = 0]
  ELSE b

\* Message of the error fire() rejects with when no fallback value is produced.
ErrorMessage(outcome) ==
  CASE outcome = "rejected" -> "Breaker is open"
    [] outcome = "transport" -> "Connection closed"
    [] outcome = "timeout" -> "Timeout has occurred"

\* error.message.includes('Circuit breaker')
MentionsCircuitBreaker(msg) == msg \in {"Circuit breaker is open - payment service unavailable"}

\* ---------------------------------------------------------------- helpers
\* An error raised by a step: createOrder has no handler, retryPayment's try
\* block hands it to the catch block, which sets the local status first.
OnError(c, step) ==
  IF call[c].kind = "retry"
  THEN [call[c] EXCEPT !.pc = "catch_inc_find", !.status = "PAYMENT_FAILED"]
  ELSE [call[c] EXCEPT !.pc = "threw", !.err = step]

\* The branch on paymentResponse.status after the dispatch.
AfterDispatch(rec, status, paymentId, outcome) ==
  IF status = "SUCCESS"
  THEN [rec EXCEPT !.status = "PAYMENT_SUCCESS", !.paymentId = paymentId,
                   !.dispatch = outcome, !.pc = "save_final"]
  ELSE [rec EXCEPT !.status = "PAYMENT_FAILED", !.dispatch = outcome, !.pc = "inc_find"]

\* A write of stockQuantity by call c is noted in every other createOrder call
\* that has not yet returned (history: it did not run alone on the product).
AfterStockWrite(c, rec) ==
  [d \in Slots |->
     IF d = c THEN rec
     ELSE IF call[d].kind = "create" /\ call[d].productCode = call[c].productCode
          THEN [call[d] EXCEPT !.interfered = TRUE]
          ELSE call[d]]

\* ---------------------------------------------------------------- dead letter submission
DlqFaults == {"none", "channel", "sendToQueue", "update"}
DlqSent(f) == f \in {"none", "update"}
DlqUpdated(f) == f = "none"

\* The message sendToDeadLetterQueue builds; both dates are new Date().
Envelope(paymentRequest, reason, attemptCount) ==
  [orderId |-> paymentRequest.orderId, paymentRequest |-> paymentRequest,
   failureReason |-> reason, attemptCount |-> attemptCount,
   firstAttemptAt |-> clock, lastAttemptAt |-> clock]

\* Where createOrder continues after awaiting sendToDeadLetterQueue(...).catch(...):
\* the method catches its own errors and the caller catches the rest.
DlqNextPc_mut(f) == IF f = "none" THEN "inc_find" ELSE "threw"

DlqNextPc(f) == "inc_find"

\* ---------------------------------------------------------------- createOrder
\* if (product.stockQuantity < createOrderDto.quantity) throw BadRequestException
QuantityUnavailable_mut(s, q) == FALSE

QuantityUnavailable(s, q) == s < q

createOrder(c, p, q) ==
  /\ CanBegin(c)
  /\ started' = started + 1
  /\ LET s == stockQuantity[p]
         rec == [call[c] EXCEPT !.kind = "create", !.id = started + 1,
                                !.productCode = p, !.quantity = q,
                                !.stockBefore = s]
     IN call' = [call EXCEPT ![c] =
                   IF s <= 0 THEN [rec EXCEPT !.pc = "threw", !.err = "out_of_stock"]
                   ELSE IF QuantityUnavailable(s, q)
                   THEN [rec EXCEPT !.pc = "threw", !.err = "insufficient"]
                   ELSE [rec EXCEPT !.pc = "create_save", !.status = "PENDING",
                                    !.amount = TotalAmount(price[p], q)]]
  /\ UNCHANGED <<stockQuantity, orders, payments, breaker, fallback, payment_queue,
                 reply, payment_dlq, faults>>
  /\ UNCHANGED routerVars
  /\ UNCHANGED settled

create_save(c, ok) ==
  /\ call[c].pc = "create_save"
  /\ MayFail(ok)
  /\ Charge(ok)
  /\ IF ok
     THEN /\ orders' = [orders EXCEPT ![call[c].id] =
                          [status |-> "PENDING", productCode |-> call[c].productCode,
                           quantity |-> call[c].quantity, paymentId |-> 0,
                           reserved |-> 0, restored |-> 0,
                           unitPrice |-> price[call[c].productCode],
                           totalAmount |-> call[c].amount]]
          /\ call' = [call EXCEPT ![c].orderId = call[c].id, ![c].pc = "dec_find"]
     ELSE /\ call' = [call EXCEPT ![c] = OnError(c, "create_save")]
          /\ UNCHANGED orders
  /\ UNCHANGED <<started, stockQuantity, payments, breaker, fallback, payment_queue, reply, payment_dlq>>
  /\ UNCHANGED routerVars
  /\ UNCHANGED settled

\* ---------------------------------------------------------------- stock ledger
\* The guard of decrementStock.
InsufficientStock_mut(s, q) == FALSE

InsufficientStock(s, q) == s < q

decrementStock_find(c) ==
  /\ call[c].pc = "dec_find"
  /\ LET s == stockQuantity[call[c].productCode] IN
     call' = [call EXCEPT ![c] =
                IF InsufficientStock(s, call[c].quantity)
                THEN OnError(c, "decrementStock")
                ELSE [call[c] EXCEPT !.read = s, !.pc = "dec_save"]]
  /\ UNCHANGED <<started, stockQuantity, orders, payments, breaker, fallback, payment_queue,
                 reply, payment_dlq, faults>>
  /\ UNCHANGED routerVars
  /\ UNCHANGED settled

decrementStock_save(c, ok) ==
  /\ call[c].pc = "dec_save"
  /\ MayFail(ok)
  /\ Charge(ok)
  /\ IF ok
     THEN /\ stockQuantity' = [stockQuantity EXCEPT ![call[c].productCode] =
                                 call[c].read - call[c].quantity]
          /\ call' = AfterStockWrite(c, [call[c] EXCEPT !.reserved = @ + 1, !.read = 0,
                                                       !.pc = "save_processing"])
          /\ orders' = [orders EXCEPT ![call[c].orderId].reserved = @ + 1]
     ELSE /\ call' = [call EXCEPT ![c] = [OnError(c, "decrementStock") EXCEPT !.read = 0]]
          /\ UNCHANGED <<stockQuantity, orders>>
  /\ UNCHANGED <<started, payments, breaker, fallback, payment_queue, reply, payment_dlq>>
  /\ UNCHANGED routerVars
  /\ UNCHANGED settled

incrementStock_find(c) ==
  /\ call[c].pc \in {"inc_find", "catch_inc_find"}
  /\ call' = [call EXCEPT ![c].read = stockQuantity[call[c].productCode],
                          ![c].incCalls = @ + 1,
                          ![c].pc = IF call[c].pc = "inc_find" THEN "inc_save"
                                    ELSE "catch_inc_save"]
  /\ UNCHANGED <<started, stockQuantity, orders, payments, breaker, fallback, payment_queue,
                 reply, payment_dlq, faults>>
  /\ UNCHANGED routerVars
  /\ UNCHANGED settled

incrementStock_save(c, ok) ==
  /\ call[c].pc \in {"inc_save", "catch_inc_save"}
  /\ MayFail(ok)
  /\ Charge(ok)
  /\ IF ok
     THEN /\ stockQuantity' = [stockQuantity EXCEPT ![call[c].productCode] =
                                 call[c].read + call[c].quantity]
          /\ call' = AfterStockWrite(c, [call[c] EXCEPT
                        !.restored = @ + 1, !.read = 0,
                        !.pc = IF call[c].pc = "inc_save" THEN "save_final" ELSE "catch_save"])
          /\ orders' = [orders EXCEPT ![call[c].orderId].restored = @ + 1]
     ELSE /\ call' = [call EXCEPT ![c] =
                        IF call[c].pc = "inc_save"
                        THEN [OnError(c, "incrementStock") EXCEPT !.read = 0]
                        ELSE [call[c] EXCEPT !.read = 0, !.pc = "catch_save"]]
          /\ UNCHANGED <<stockQuantity, orders>>
  /\ UNCHANGED <<started, payments, breaker, fallback, payment_queue, reply, payment_dlq>>
  /\ UNCHANGED routerVars
  /\ UNCHANGED settled

\* ---------------------------------------------------------------- order saves
save_processing(c, ok) ==
  /\ call[c].pc = "save_processing"
  /\ MayFail(ok)
  /\ Charge(ok)
  /\ IF ok
     THEN /\ orders' = [orders EXCEPT ![call[c].orderId].status = "PAYMENT_PROCESSING",
                                      ![call[c].orderId].paymentId = call[c].paymentId]
          /\ call' = [call EXCEPT ![c].status = "PAYMENT_PROCESSING", ![c].pc = "fire"]
     ELSE /\ call' = [call EXCEPT ![c] =
                        OnError(c, "save_processing")]
          /\ UNCHANGED orders
  /\ UNCHANGED <<started, stockQuantity, payments, breaker, fallback, payment_queue, reply, payment_dlq>>
  /\ UNCHANGED routerVars
  /\ UNCHANGED settled

save_final(c, ok) ==
  /\ call[c].pc \in {"save_final", "catch_save"}
  /\ MayFail(ok)
  /\ Charge(ok)
  /\ IF ok
     THEN /\ orders' = [orders EXCEPT ![call[c].orderId].status = call[c].status,
                                      ![call[c].orderId].paymentId = call[c].paymentId]
          /\ call' = [call EXCEPT ![c].pc = "done"]
     ELSE /\ call' = [call EXCEPT ![c] =
                        IF call[c].pc = "save_final"
                        THEN OnError(c, "save_final")
                        ELSE [call[c] EXCEPT !.pc = "threw", !.err = "catch_save"]]
          /\ UNCHANGED orders
  /\ UNCHANGED <<started, stockQuantity, payments, breaker, fallback, payment_queue, reply, payment_dlq>>
  /\ UNCHANGED routerVars
  /\ UNCHANGED settled

\* ---------------------------------------------------------------- payment dispatch
\* The handling of a dispatch that produced no payment response.  With a
\* fallback registered fire() resolves with the fallback object, whose status
\* is not 'SUCCESS'.  Without one fire() rejects: createOrder's catch block
\* submits the request to the dead-letter queue (fault f) and builds a FAILED
\* response, retryPayment's only builds the FAILED response.
NoResponse(c, rec, b, outcome, f) ==
  LET o == call[c].orderId
      msg == ErrorMessage(outcome)
      reason == IF MentionsCircuitBreaker(msg)
                THEN "Circuit breaker is open - payment service unavailable"
                ELSE msg
      toDlq == ~fallback /\ call[c].kind = "create"
      next == AfterDispatch(rec, "FAILED", 0, outcome)
  IN
  /\ breaker' = b
  /\ IF toDlq
     THEN /\ f = "none" \/ faults < MaxFaults
          /\ faults' = IF f = "none" THEN faults ELSE faults + 1
          /\ payment_dlq' = IF DlqSent(f)
                            THEN Append(payment_dlq,
                                        Envelope([orderId |-> o, amount |-> call[c].amount],
                                                 reason, 1))
                            ELSE payment_dlq
          /\ orders' = IF DlqUpdated(f)
                       THEN [orders EXCEPT ![o].status = "PAYMENT_QUEUED_DLQ"]
                       ELSE orders
          /\ call' = [call EXCEPT ![c] =
                        IF DlqNextPc(f) = "threw"
                        THEN [rec EXCEPT !.dlq = f, !.dispatch = outcome,
                                         !.pc = "threw", !.err = "dlq"]
                        ELSE [next EXCEPT !.dlq = f]]
     ELSE /\ f = "none"
          /\ call' = [call EXCEPT ![c] = next]
          /\ UNCHANGED <<payment_dlq, orders, faults>>

\* paymentCircuitBreaker.fire(paymentRequest): rejected while the circuit is
\* open, otherwise paymentClient.send is invoked; the message reaches the
\* broker (sent) or the send fails at once.
fire(c, sent, f) ==
  /\ call[c].pc = "fire"
  /\ IF ~BreakerAllows(breaker)
     THEN /\ sent = FALSE
          /\ NoResponse(c, [call[c] EXCEPT !.firedIn = breaker.state],
                        Fired(breaker), "rejected", f)
          /\ UNCHANGED payment_queue
     ELSE IF sent
          THEN /\ f = "none"
               /\ breaker' = Invoked(Fired(breaker))
               /\ payment_queue' = payment_queue \cup
                                      {[call |-> call[c].id, orderId |-> call[c].orderId,
                                        amount |-> call[c].amount]}
               /\ call' = [call EXCEPT ![c].firedIn = breaker.state, ![c].sends = 1,
                                       ![c].pc = "await"]
               /\ UNCHANGED <<payment_dlq, orders, faults>>
          ELSE /\ NoResponse(c, [call[c] EXCEPT !.firedIn = breaker.state, !.sends = 1],
                             Failed(Invoked(Fired(breaker))), "transport", f)
               /\ UNCHANGED payment_queue
  /\ UNCHANGED <<started, stockQuantity, payments, fallback, reply>>
  /\ UNCHANGED routerVars
  /\ UNCHANGED settled

\* The 30 s timeout fires before the response has been taken.
timeout(c, f) ==
  /\ call[c].pc = "await"
  /\ NoResponse(c, call[c], Failed(breaker), "timeout", f)
  /\ reply' = [reply EXCEPT ![c] = NoReply]
  /\ UNCHANGED <<started, stockQuantity, payments, fallback, payment_queue>>
  /\ UNCHANGED routerVars
  /\ UNCHANGED settled

\* The response message arrives: the action resolved.
receive(c) ==
  /\ call[c].pc = "await"
  /\ reply[c].status # "none"
  /\ breaker' = Succeeded(breaker)
  /\ call' = [call EXCEPT ![c] =
                AfterDispatch(call[c], reply[c].status, reply[c].paymentId, reply[c].status)]
  /\ reply' = [reply EXCEPT ![c] = NoReply]
  /\ UNCHANGED <<started, stockQuantity, orders, payments, fallback, payment_queue, payment_dlq, faults>>
  /\ UNCHANGED routerVars
  /\ UNCHANGED settled

\* The circuit has been open for resetTimeout (60 s).  No action is invoked
\* while it is open and an invoked action resolves or times out within 30 s,
\* so by then no call awaits a response and the 10 s rolling window
\* (rollingCountTimeout) holds none of the earlier events.
resetTimeoutElapsed ==
  /\ breaker.state = "OPEN"
  /\ \A c \in Slots : call[c].pc # "await"
  /\ breaker' = [breaker EXCEPT !.state = "HALF_OPEN", !.pendingClose = TRUE,
                                !.fires = 0, !.failures = 0, !.trials = 0]
  /\ UNCHANGED <<started, stockQuantity, orders, payments, fallback, payment_queue, reply,
                 payment_dlq, call, faults>>
  /\ UNCHANGED routerVars
  /\ UNCHANGED settled

\* ---------------------------------------------------------------- payment service
\* PaymentService.processPayment: one new row per request.
processPayment(o) ==
  Append(payments, [orderId |-> o, status |-> IF isSuccess THEN "SUCCESS" ELSE "FAILED"])

\* channel.nack(originalMsg, false, false): the third argument.
requeue_mut == TRUE

requeue == FALSE

\* The settlement of a delivery: channel.ack when processPayment returned,
\* channel.nack when it threw.
Settle(s, threw) ==
  IF threw
  THEN [s EXCEPT !.deliveries = @ + 1, !.nacks = @ + 1,
                 !.requeues = IF requeue THEN @ + 1 ELSE @]
  ELSE [s EXCEPT !.deliveries = @ + 1, !.acks = @ + 1]

\* PaymentController.processPayment for the request m; the response reaches the
\* call only while it still awaits it.  ok = FALSE: the
\* save of the payment row fails and the handler answers FAILED.
PaymentController_processPayment(m, ok) ==
  /\ m \in payment_queue
  /\ MayFail(ok)
  /\ Charge(ok)
  /\ payment_queue' = IF ~ok /\ requeue THEN payment_queue ELSE payment_queue \ {m}
  /\ settled' = [settled EXCEPT ![m.call] = Settle(@, ~ok)]
  /\ payments' = IF ok THEN processPayment(m.orderId) ELSE payments
  /\ reply' = [c \in Slots |->
                IF call[c].id = m.call /\ call[c].pc = "await"
                THEN IF ok THEN [status |-> payments'[Len(payments')].status,
                                 paymentId |-> Len(payments')]
                     ELSE [status |-> "FAILED", paymentId |-> 0]
                ELSE reply[c]]
  /\ UNCHANGED <<started, stockQuantity, orders, breaker, fallback, payment_dlq, call>>
  /\ UNCHANGED routerVars

\* ---------------------------------------------------------------- retryPayment
\* The status checks of retryPayment: only a PAYMENT_FAILED order passes.
Retryable_mut(status) == status \in {"PAYMENT_FAILED", "PAYMENT_SUCCESS"}

Retryable(status) == status = "PAYMENT_FAILED"

\* if (product.stockQuantity < order.quantity) throw Error
RetryQuantityUnavailable_mut(s, q) == FALSE

RetryQuantityUnavailable(s, q) == s < q

retryPayment(c, o) ==
  /\ CanBegin(c)
  /\ started' = started + 1
  /\ LET rec == [call[c] EXCEPT !.kind = "retry", !.id = started + 1] IN
     call' = [call EXCEPT ![c] =
                IF orders[o].status = "none"
                THEN [rec EXCEPT !.pc = "threw", !.err = "not_found"]
                ELSE IF ~Retryable(orders[o].status)
                THEN [rec EXCEPT !.pc = "threw", !.err = "invalid_status",
                                 !.status = orders[o].status]
                ELSE [rec EXCEPT !.orderId = o, !.productCode = orders[o].productCode,
                                 !.quantity = orders[o].quantity,
                                 !.status = orders[o].status,
                                 !.paymentId = orders[o].paymentId,
                                 !.amount = orders[o].totalAmount,
                                 !.pc = "retry_validate"]]
  /\ UNCHANGED <<stockQuantity, orders, payments, breaker, fallback, payment_queue,
                 reply, payment_dlq, faults>>
  /\ UNCHANGED routerVars
  /\ UNCHANGED settled

retry_validate(c) ==
  /\ call[c].pc = "retry_validate"
  /\ LET s == stockQuantity[call[c].productCode] IN
     call' = [call EXCEPT ![c] =
                IF s <= 0 THEN [call[c] EXCEPT !.pc = "threw", !.err = "out_of_stock"]
                ELSE IF RetryQuantityUnavailable(s, call[c].quantity)
                THEN [call[c] EXCEPT !.pc = "threw", !.err = "insufficient"]
                ELSE [call[c] EXCEPT !.pc = "dec_find"]]
  /\ UNCHANGED <<started, stockQuantity, orders, payments, breaker, fallback, payment_queue,
                 reply, payment_dlq, faults>>
  /\ UNCHANGED routerVars
  /\ UNCHANGED settled

\* The call's result (an order or an error) is handed to its caller.
return(c) ==
  /\ Ended(c)
  /\ call' = [call EXCEPT ![c] = Idle]
  /\ UNCHANGED <<started, stockQuantity, orders, payments, breaker, fallback, payment_queue,
                 reply, payment_dlq, faults>>
  /\ UNCHANGED routerVars
  /\ UNCHANGED settled

\* ---------------------------------------------------------------- specification
Next ==
  \/ \E c \in Slots, p \in ProductCodes, q \in Quantities : createOrder(c, p, q)
  \/ \E c \in Slots, ok \in BOOLEAN : create_save(c, ok)
  \/ \E c \in Slots : decrementStock_find(c)
  \/ \E c \in Slots, ok \in BOOLEAN : decrementStock_save(c, ok)
  \/ \E c \in Slots, ok \in BOOLEAN : save_processing(c, ok)
  \/ \E c \in Slots, sent \in BOOLEAN, f \in DlqFaults : fire(c, sent, f)
  \/ \E c \in Slots, f \in DlqFaults : timeout(c, f)
  \/ \E c \in Slots : receive(c)
  \/ \E c \in Slots : incrementStock_find(c)
  \/ \E c \in Slots, ok \in BOOLEAN : incrementStock_save(c, ok)
  \/ \E c \in Slots, ok \in BOOLEAN : save_final(c, ok)
  \/ \E c \in Slots, o \in Calls : retryPayment(c, o)
  \/ \E c \in Slots : retry_validate(c)
  \/ \E m \in Requests, ok \in BOOLEAN : PaymentController_processPayment(m, ok)
  \/ \E c \in Slots : return(c)
  \/ resetTimeoutElapsed

Spec == Init /\ [][Next]_vars

\* The program for either behaviour of fire() on a failed dispatch: it resolves
\* with the fallback value (fallback = TRUE, as createBreaker sets the breaker
\* up) or it rejects (fallback = FALSE), which is the case the catch blocks
\* around fire() in createOrder and retryPayment are written for.
InitAnyFallback ==
  /\ stockQuantity = [p \in ProductCodes |-> InitStock]
  /\ orders = [o \in Calls |-> NoOrder]
  /\ payments = <<>>
  /\ breaker = [state |-> "CLOSED", pendingClose |-> FALSE, fires |-> 0, failures |-> 0,
                trials |-> 0]
  /\ fallback \in BOOLEAN
  /\ payment_queue = {}
  /\ reply = [c \in Slots |-> NoReply]
  /\ payment_dlq = <<>>
  /\ call = [c \in Slots |-> Idle]
  /\ started = 0
  /\ faults = 0
  /\ clock = 0
  /\ payment_retry_queue = <<>>
  /\ settled = [k \in Calls |-> Unsettled]
  /\ operator_log = {}
  /\ evaluated = {}
  /\ unacked = <<>>

SpecAnyFallback == InitAnyFallback /\ [][Next]_vars

\* The program with one more unit in stock and stores that do not fail (the
\* failure budget is spent from the start): an order for more than one unit
\* can be placed, fail and be retried.
InitRestocked ==
  /\ stockQuantity = [p \in ProductCodes |-> InitStock + 1]
  /\ orders = [o \in Calls |-> NoOrder]
  /\ payments = <<>>
  /\ breaker = [state |-> "CLOSED", pendingClose |-> FALSE, fires |-> 0, failures |-> 0,
                trials |-> 0]
  /\ fallback = TRUE
  /\ payment_queue = {}
  /\ reply = [c \in Slots |-> NoReply]
  /\ payment_dlq = <<>>
  /\ call = [c \in Slots |-> Idle]
  /\ started = 0
  /\ faults = MaxFaults
  /\ clock = 0
  /\ payment_retry_queue = <<>>
  /\ settled = [k \in Calls |-> Unsettled]
  /\ operator_log = {}
  /\ evaluated = {}
  /\ unacked = <<>>

SpecRestocked == InitRestocked /\ [][Next]_vars

\* ---------------------------------------------------------------- dead letter router
maxRetries == 3
maxRetryWindow == 3600000
x_message_ttl == 30000
expiration == 30000

\* failureReason.includes(word)
Includes(text, word) ==
  \E i \in 1..(Len(text) - Len(word) + 1) : SubSeq(text, i, i + Len(word) - 1) = word

shouldRetryPayment_mut(message) ==
  /\ message.attemptCount < maxRetries
  /\ clock - message.firstAttemptAt < maxRetryWindow
  /\ ~Includes(message.failureReason, "Invalid")

shouldRetryPayment(message) ==
  /\ message.attemptCount < maxRetries
  /\ clock - message.firstAttemptAt < maxRetryWindow
  /\ ~Includes(message.failureReason, "Invalid")
  /\ ~Includes(message.failureReason, "Insufficient")

\* The message sendToRetryQueue builds from the consumed one.
RetryMessage_mut(message) == [message EXCEPT !.lastAttemptAt = clock]

RetryMessage(message) ==
  [message EXCEPT !.attemptCount = @ + 1, !.lastAttemptAt = clock]

\* payment_dlq is declared without a dead-letter exchange: a message rejected
\* with requeue = false is discarded by the broker.
Rejected(queue) == Tail(queue)

\* The consumer callback runs JSON.parse and shouldRetryPayment outside any
\* try block: content that is not JSON (field raw), or an envelope without a
\* failureReason that passes the two tests in front of failureReason.includes,
\* makes the callback throw.
Throws(content) ==
  \/ "raw" \in DOMAIN content
  \/ /\ "failureReason" \notin DOMAIN content
     /\ content.attemptCount < maxRetries
     /\ clock - content.firstAttemptAt < maxRetryWindow

\* The consumer callback of consumeDLQ for the message at the head of
\* payment_dlq.  sent = FALSE: sendToQueue fails; sendToRetryQueue logs the
\* error and the message is acknowledged all the same.  When the callback
\* throws, the delivery is neither acknowledged nor rejected.
consumeDLQ(sent) ==
  /\ payment_dlq # <<>>
  /\ LET content == Head(payment_dlq) IN
     IF Throws(content)
     THEN /\ sent
          /\ unacked' = Append(unacked, content)
          /\ payment_dlq' = Tail(payment_dlq)
          /\ UNCHANGED <<payment_retry_queue, faults, evaluated>>
     ELSE LET shouldRetry == shouldRetryPayment(content) IN
          /\ IF shouldRetry
             THEN /\ MayFail(sent)
                  /\ Charge(sent)
                  /\ payment_retry_queue' =
                       IF sent
                       THEN Append(payment_retry_queue,
                                   [message |-> RetryMessage(content), enqueuedAt |-> clock])
                       ELSE payment_retry_queue
                  /\ payment_dlq' = Tail(payment_dlq)
             ELSE /\ sent
                  /\ payment_dlq' = Rejected(payment_dlq)
                  /\ UNCHANGED <<payment_retry_queue, faults>>
          /\ evaluated' = evaluated \cup
                            {[message |-> content, at |-> clock,
                              verdict |-> IF shouldRetry THEN "retry" ELSE "manual"]}
          /\ UNCHANGED unacked
  /\ UNCHANGED <<stockQuantity, orders, payments, breaker, fallback, payment_queue, reply,
                 call, started, clock, settled, operator_log>>

\* The broker: a message on payment_retry_queue whose time to live (the lesser
\* of the queue's x-message-ttl and the message's expiration) has passed is
\* dead-lettered through the default exchange to payment_queue.
TimeToLive == IF expiration < x_message_ttl THEN expiration ELSE x_message_ttl

Expired(entry) == clock - entry.enqueuedAt >= TimeToLive

deadLetterRetry ==
  /\ payment_retry_queue # <<>>
  /\ Expired(Head(payment_retry_queue))
  /\ payment_queue' = payment_queue \cup {Head(payment_retry_queue).message}
  /\ payment_retry_queue' = Tail(payment_retry_queue)
  /\ UNCHANGED <<stockQuantity, orders, payments, breaker, fallback, reply, payment_dlq,
                 call, started, faults, clock, settled, operator_log, evaluated, unacked>>

\* Time passes.
tick(d) ==
  /\ clock + d <= MaxClock
  /\ clock' = clock + d
  /\ UNCHANGED <<stockQuantity, orders, payments, breaker, fallback, payment_queue, reply,
                 payment_dlq, call, started, faults, payment_retry_queue, settled,
                 operator_log, evaluated, unacked>>

\* POST /dlq/reprocess/:orderId: reprocessDLQMessage writes a log line and the
\* controller answers success.
reprocessDLQMessage(orderId) ==
  /\ operator_log' = operator_log \cup
                        {[op |-> "reprocess", name |-> "", orderId |-> orderId,
                          result |-> TRUE]}
  /\ UNCHANGED <<stockQuantity, orders, payments, breaker, fallback, payment_queue, reply,
                 payment_dlq, call, started, faults, clock, payment_retry_queue, settled,
                 evaluated, unacked>>

\* Failure reasons: those of getRandomFailureReason, the messages of the errors
\* fire() rejects with, the message PaymentService builds around a reason and
\* the message of decrementStock's stock error.
Reasons ==
  {"Insufficient funds", "Card declined", "Invalid card number", "Card expired",
   "Transaction limit exceeded", "Payment gateway timeout", "Bank authorization failed",
   "Breaker is open", "Connection closed", "Timeout has occurred",
   "Circuit breaker is open - payment service unavailable",
   "Payment failed: Invalid card number",
   "Insufficient stock for product LAPTOP-001. Available: 0, Requested: 1"}

\* Time since the first attempt of an envelope: none, just inside the retry
\* window, and the whole window.
Ages == {0, maxRetryWindow - TimeToLive, maxRetryWindow}

\* Orders the operator asks to reprocess.
DlqOrders == {1}

\* The router on its own: one envelope of order 1 is on payment_dlq, with any
\* reason, attempt count and age; no saga call runs.
InitDLQ ==
  /\ clock = 0
  /\ stockQuantity = [p \in ProductCodes |-> InitStock]
  /\ orders = [o \in Calls |-> NoOrder]
  /\ payments = <<>>
  /\ breaker = [state |-> "CLOSED", pendingClose |-> FALSE, fires |-> 0, failures |-> 0,
                trials |-> 0]
  /\ fallback = TRUE
  /\ payment_queue = {}
  /\ reply = [c \in Slots |-> NoReply]
  /\ \E reason \in Reasons, attemptCount \in 1..MaxAttempts, age \in Ages :
       payment_dlq = <<[Envelope([orderId |-> 1, amount |-> TotalAmount(price["LAPTOP-001"], 1)],
                                 reason, attemptCount)
                          EXCEPT !.firstAttemptAt = clock - age,
                                 !.lastAttemptAt = clock - age]>>
  /\ call = [c \in Slots |-> Idle]
  /\ started = MaxCalls
  /\ faults = 0
  /\ payment_retry_queue = <<>>
  /\ settled = [k \in Calls |-> Unsettled]
  /\ operator_log = {}
  /\ evaluated = {}
  /\ unacked = <<>>

NextDLQ ==
  \/ \E sent \in BOOLEAN : consumeDLQ(sent)
  \/ deadLetterRetry
  \/ tick(TimeToLive)
  \/ \E orderId \in DlqOrders : reprocessDLQMessage(orderId)

SpecDLQ == InitDLQ /\ [][NextDLQ]_vars

\* What anyone may publish to payment_dlq: envelopes as sendToDeadLetterQueue
\* builds them, envelopes without a failureReason, and content that is not JSON.
Contents ==
  LET paymentRequest == [orderId |-> 1, amount |-> TotalAmount(price["LAPTOP-001"], 1)]
      Built == {Envelope(paymentRequest, reason, attemptCount) :
                  reason \in {"Card declined", "Invalid card number"},
                  attemptCount \in {1, maxRetries}}
  IN Built
       \cup {[f \in DOMAIN e \ {"failureReason"} |-> e[f]] : e \in Built}
       \cup {[raw |-> "not json"]}

\* The router with one or two messages of any content on payment_dlq.
InitDLQRaw ==
  /\ clock = 0
  /\ stockQuantity = [p \in ProductCodes |-> InitStock]
  /\ orders = [o \in Calls |-> NoOrder]
  /\ payments = <<>>
  /\ breaker = [state |-> "CLOSED", pendingClose |-> FALSE, fires |-> 0, failures |-> 0,
                trials |-> 0]
  /\ fallback = TRUE
  /\ payment_queue = {}
  /\ reply = [c \in Slots |-> NoReply]
  /\ \E first \in Contents, second \in Contents :
       payment_dlq \in {<<first>>, <<first, second>>}
  /\ call = [c \in Slots |-> Idle]
  /\ started = MaxCalls
  /\ faults = 0
  /\ payment_retry_queue = <<>>
  /\ settled = [k \in Calls |-> Unsettled]
  /\ operator_log = {}
  /\ evaluated = {}
  /\ unacked = <<>>

SpecDLQRaw == InitDLQRaw /\ [][NextDLQ]_vars

\* ---------------------------------------------------------------- payment-side consumer
\* DLQConsumer of the payment service.  The class is provided by a module no
\* other module imports and processPayment is compiled with isSuccess = true;
\* this section models its consume callback as written, for both values of the
\* decision: the compiled one and the one the comment beside it names for
\* failure tests.
Decisions == {isSuccess, ~isSuccess}

\* if (attemptCount >= 3): the attempt limit of the callback.
attemptLimit == 3

\* Rows the consumer may add to the payments table in one run of the model.
MaxPayments == 5

\* The consume callback for the envelope at the head of payment_dlq.
\* success: the decision of processPayment; ok = FALSE: the save of the payment
\* row fails and the catch block rejects the message without requeue.  A FAILED
\* result below the attempt limit is rejected with requeue = true: the broker
\* puts the same message, attemptCount included, back on payment_dlq.
DLQConsumer_consume(success, ok) ==
  /\ payment_dlq # <<>>
  /\ Len(payments) < MaxPayments
  /\ MayFail(ok)
  /\ Charge(ok)
  /\ LET content == Head(payment_dlq)
         status == IF success THEN "SUCCESS" ELSE "FAILED"
     IN
     /\ payments' = IF ok
                    THEN Append(payments, [orderId |-> content.paymentRequest.orderId,
                                           status |-> status])
                    ELSE payments
     /\ payment_dlq' = IF ok /\ ~success /\ content.attemptCount < attemptLimit
                       THEN payment_dlq
                       ELSE Tail(payment_dlq)
  /\ UNCHANGED <<stockQuantity, orders, breaker, fallback, payment_queue, reply,
                 call, started, clock, payment_retry_queue, settled, operator_log,
                 evaluated, unacked>>

NextDLQConsumer ==
  \E success \in Decisions, ok \in BOOLEAN : DLQConsumer_consume(success, ok)

SpecDLQConsumer == InitDLQ /\ [][NextDLQConsumer]_vars

\* ---------------------------------------------------------------- operator endpoints
\* The breakers map of CircuitBreakerService holds the one breaker OrderService
\* creates; an operator may name any breaker.
breakers == {"payment-service"}
BreakerNames == {"payment-service", "inventory-service"}

\* breaker.clearCache(); breaker.close(): opossum's close() sets the state and
\* drops the pending trial, clearCache() empties the result cache (there is
\* none configured); neither touches the counters of the rolling window.
Reset(b) == [b EXCEPT !.state = "CLOSED", !.pendingClose = FALSE, !.trials = 0]

\* POST /circuit-breaker/reset/:name; result FALSE is the 404 response.
resetBreaker(name) ==
  /\ breaker' = IF name \in breakers THEN Reset(breaker) ELSE breaker
  /\ operator_log' = operator_log \cup
                        {[op |-> "resetBreaker", name |-> name, orderId |-> 0,
                          result |-> name \in breakers]}
  /\ UNCHANGED <<stockQuantity, orders, payments, fallback, payment_queue, reply,
                 payment_dlq, call, started, faults, clock, payment_retry_queue, settled,
                 evaluated, unacked>>

\* The saga with an operator who resets breakers at any time.  One call has
\* already been made (a createOrder rejected for lack of stock, which leaves
\* nothing but the call count behind) and the stores do not fail (the failure
\* budget is spent from the start).
InitOperator ==
  /\ stockQuantity = [p \in ProductCodes |-> InitStock]
  /\ orders = [o \in Calls |-> NoOrder]
  /\ payments = <<>>
  /\ breaker = [state |-> "CLOSED", pendingClose |-> FALSE, fires |-> 0, failures |-> 0,
                trials |-> 0]
  /\ fallback = TRUE
  /\ payment_queue = {}
  /\ reply = [c \in Slots |-> NoReply]
  /\ payment_dlq = <<>>
  /\ call = [c \in Slots |-> Idle]
  /\ started = 1
  /\ faults = MaxFaults
  /\ clock = 0
  /\ payment_retry_queue = <<>>
  /\ settled = [k \in Calls |-> Unsettled]
  /\ operator_log = {}
  /\ evaluated = {}
  /\ unacked = <<>>

NextOperator ==
  \/ Next
  \/ \E name \in BreakerNames : resetBreaker(name)

SpecOperator == InitOperator /\ [][NextOperator]_vars

\* A breaker as new CircuitBreaker(action, options) constructs it.
NewBreaker ==
  [state |-> "CLOSED", pendingClose |-> FALSE, fires |-> 0, failures |-> 0, trials |-> 0]

\* Names in the breakers map: the one OrderService's constructor registered
\* and those createBreaker has been called with since.
Registered ==
  breakers \cup {r.name : r \in {x \in operator_log : x.op = "createBreaker"}}

\* What createBreaker returns for a name whose entry in the map is existing.
GetOrCreate_mut(name, existing) == NewBreaker

GetOrCreate(name, existing) == IF name \in Registered THEN existing ELSE NewBreaker

\* circuitBreakerService.createBreaker(name, action, options) called again
\* while the service runs; result TRUE: the breaker returned is the one the
\* map already held.
createBreaker(name) ==
  /\ breaker' = IF name = "payment-service" THEN GetOrCreate(name, breaker) ELSE breaker
  /\ operator_log' = operator_log \cup
                        {[op |-> "createBreaker", name |-> name, orderId |-> 0,
                          result |-> name \in Registered, fires |-> breaker.fires]}
  /\ UNCHANGED <<stockQuantity, orders, payments, fallback, payment_queue, reply,
                 payment_dlq, call, started, faults, clock, payment_retry_queue, settled,
                 evaluated, unacked>>

\* The saga with createBreaker called at any time, from the state InitOperator
\* describes.
NextRegistry ==
  \/ Next
  \/ \E name \in BreakerNames : createBreaker(name)

SpecRegistry == InitOperator /\ [][NextRegistry]_vars

TypeOK ==
  /\ \A p \in ProductCodes : stockQuantity[p] \in Int
  /\ breaker.state \in {"CLOSED", "OPEN", "HALF_OPEN"}
  /\ started \in 0..MaxCalls

\* ---------------------------------------------------------------- claims
InFlight(o) == \E c \in Slots : Active(c) /\ call[c].orderId = o

SuccessRecords(o) ==
  {i \in 1..Len(payments) : payments[i].orderId = o /\ payments[i].status = "SUCCESS"}

FailedDispatch == {"FAILED", "rejected", "transport", "timeout"}

\* C1: at rest, an order in PAYMENT_SUCCESS has exactly one SUCCESS payment row,
\* and the call that ended with PAYMENT_SUCCESS reserved once and never restored.
C1_SuccessHasOneRecord ==
  /\ \A o \in Calls :
       (~InFlight(o) /\ orders[o].status = "PAYMENT_SUCCESS")
         => Cardinality(SuccessRecords(o)) = 1
  /\ \A c \in Slots :
       (call[c].pc = "done" /\ call[c].status = "PAYMENT_SUCCESS")
         => (call[c].reserved = 1 /\ call[c].restored = 0)

\* C2: the payment store never holds two SUCCESS rows for one order reference.
C2_AtMostOneSuccess ==
  \A o \in Calls : Cardinality(SuccessRecords(o)) <= 1

\* C3: at rest, an order in PAYMENT_FAILED or PAYMENT_QUEUED_DLQ has had every
\* reservation made for it restored, once each (same product, same quantity).
C3_FailedNetZero ==
  \A o \in Calls :
    (~InFlight(o) /\ orders[o].status \in {"PAYMENT_FAILED", "PAYMENT_QUEUED_DLQ"})
      => orders[o].restored = orders[o].reserved

\* C4: a call that reserved stock ends either consumed (PAYMENT_SUCCESS returned,
\* nothing restored) or restored exactly once, whatever failed on the way.
C4_OneDisposition ==
  \A c \in Slots :
    (Ended(c) /\ call[c].reserved = 1)
      => \/ (call[c].pc = "done" /\ call[c].status = "PAYMENT_SUCCESS"
             /\ call[c].restored = 0)
         \/ (~(call[c].pc = "done" /\ call[c].status = "PAYMENT_SUCCESS")
             /\ call[c].restored = 1)

\* C5: the stockQuantity of every product is never negative.
C5_StockNonNegative ==
  \A p \in ProductCodes : stockQuantity[p] >= 0

\* Two calls in flight both hold a reservation on a product whose stock could
\* not cover both: the second write overwrote the first.
C5_Witness ==
  \E c, d \in Slots :
    /\ c # d
    /\ call[c].productCode = call[d].productCode
    /\ call[c].pc = "save_processing" /\ call[d].pc = "save_processing"
    /\ call[c].quantity + call[d].quantity > InitStock
    /\ stockQuantity[call[c].productCode] = 0

\* C6: every change of a stored order status follows an edge of the state
\* machine; in particular PAYMENT_SUCCESS is never left.
C6_StatusEdges ==
  [][LET StatusEdges ==
           {<<"none", "PENDING">>,
            <<"PENDING", "PAYMENT_PROCESSING">>,
            <<"PAYMENT_PROCESSING", "PAYMENT_SUCCESS">>,
            <<"PAYMENT_PROCESSING", "PAYMENT_FAILED">>,
            <<"PAYMENT_PROCESSING", "PAYMENT_QUEUED_DLQ">>,
            <<"PAYMENT_FAILED", "PAYMENT_PROCESSING">>}
     IN \A o \in Calls :
          orders'[o].status # orders[o].status
            => <<orders[o].status, orders'[o].status>> \in StatusEdges]_vars

\* C7: a createOrder call whose dispatch did not succeed has placed exactly one
\* envelope for its order on payment_dlq, with attemptCount 1.
C7_FailedDispatchEnveloped ==
  \A c \in Slots :
    (call[c].kind = "create" /\ call[c].dispatch \in FailedDispatch)
      => /\ Cardinality({i \in 1..Len(payment_dlq) :
                           payment_dlq[i].orderId = call[c].orderId}) = 1
         /\ \A i \in 1..Len(payment_dlq) :
              payment_dlq[i].orderId = call[c].orderId
                => payment_dlq[i].attemptCount = 1

C9_EndsTerminal ==
  \A c \in Slots :
    (Ended(c) /\ call[c].orderId # 0 /\ ~InFlight(call[c].orderId))
      => orders[call[c].orderId].status \in {"PAYMENT_SUCCESS", "PAYMENT_FAILED"}

C11_RestoredBeforeError ==
  \A c \in Slots :
    (call[c].pc = "threw" /\ call[c].reserved >= 1)
      => call[c].restored >= call[c].reserved

\* C12: createOrder for more than the product has in stock raises the stock
\* error in the same step, and that step writes no stock, no order row and
\* sends no payment request.
C12_InsufficientNoEffects ==
  [][\A c \in Slots, p \in ProductCodes, q \in Quantities :
       (createOrder(c, p, q) /\ stockQuantity[p] < q)
         => /\ call'[c].pc = "threw"
            /\ call'[c].err \in {"insufficient", "out_of_stock"}
            /\ call'[c].orderId = 0 /\ call'[c].sends = 0 /\ call'[c].reserved = 0
            /\ UNCHANGED <<stockQuantity, orders, payments, payment_queue,
                           payment_dlq, breaker>>]_vars

\* A createOrder for two units of a product with one unit in stock was rejected.
C12_Witness ==
  \E c \in Slots :
    /\ call[c].kind = "create" /\ call[c].pc = "threw"
    /\ call[c].err = "insufficient"
    /\ call[c].stockBefore > 0 /\ call[c].stockBefore < call[c].quantity

\* C13: retryPayment of an existing order whose status is not PAYMENT_FAILED
\* raises an error in the same step, and that step changes no order row, no
\* stock and sends no payment request.
C13_IllegalRetryNoEffects ==
  [][\A c \in Slots, o \in Calls :
       (retryPayment(c, o) /\ orders[o].status \notin {"none", "PAYMENT_FAILED"})
         => /\ call'[c].pc = "threw"
            /\ call'[c].err = "invalid_status"
            /\ call'[c].sends = 0 /\ call'[c].reserved = 0
            /\ UNCHANGED <<stockQuantity, orders, payments, payment_queue,
                           payment_dlq, breaker>>]_vars

\* A retryPayment of an order in PAYMENT_SUCCESS was rejected.
C13_Witness ==
  \E c \in Slots, o \in Calls :
    /\ call[c].kind = "retry" /\ call[c].pc = "threw"
    /\ call[c].err = "invalid_status"
    /\ call[c].status = "PAYMENT_SUCCESS"
    /\ orders[o].status = "PAYMENT_SUCCESS"

\* C14: retryPayment of a PAYMENT_FAILED order for more than the product has
\* in stock raises the stock error at its validation step, and that step
\* changes no order row, no stock and sends no payment request.
C14_RetryInsufficientNoEffects ==
  [][\A c \in Slots :
       (retry_validate(c) /\ stockQuantity[call[c].productCode] < call[c].quantity)
         => /\ call'[c].pc = "threw"
            /\ call'[c].err \in {"insufficient", "out_of_stock"}
            /\ call'[c].sends = 0 /\ call'[c].reserved = 0 /\ call'[c].incCalls = 0
            /\ orders[call[c].orderId].status = "PAYMENT_FAILED"
                 => orders'[call[c].orderId].status = "PAYMENT_FAILED"
            /\ UNCHANGED <<stockQuantity, orders, payments, payment_queue,
                           payment_dlq, breaker>>]_vars

\* A retryPayment of a two-unit order found one unit in stock and was rejected;
\* the order is still PAYMENT_FAILED.
C14_Witness ==
  \E c \in Slots :
    /\ call[c].kind = "retry" /\ call[c].pc = "threw"
    /\ call[c].err = "insufficient"
    /\ call[c].quantity > 1
    /\ orders[call[c].orderId].status = "PAYMENT_FAILED"

\* C15: two retryPayment calls in flight on the same order never both hold a
\* reservation made for it (at most one of them executes decrementStock).
C15_PerOrderSerialized ==
  \A c, d \in Slots :
    (c # d /\ Active(c) /\ Active(d)
       /\ call[c].kind = "retry" /\ call[d].kind = "retry"
       /\ call[c].orderId # 0 /\ call[c].orderId = call[d].orderId)
      => ~(call[c].reserved >= 1 /\ call[d].reserved >= 1)

\* Quantity of the orders 1..n whose stored status is PAYMENT_SUCCESS.
RECURSIVE SoldQuantity(_)
SoldQuantity(n) ==
  IF n = 0 THEN 0
  ELSE SoldQuantity(n - 1)
       + (IF orders[n].status = "PAYMENT_SUCCESS" THEN orders[n].quantity ELSE 0)

\* C16: once every call has completed, and even when no store operation has
\* failed, the stock of the product is its initial value minus the quantities
\* of the orders that ended PAYMENT_SUCCESS.
C16_StockLedgerExact ==
  ((\A c \in Slots : ~Active(c)) /\ faults = 0)
    => \A p \in ProductCodes : stockQuantity[p] = InitStock - SoldQuantity(MaxCalls)

\* C17: a stored order has a paymentId exactly when its status is PAYMENT_SUCCESS.
C17_PaymentIdIffSuccess ==
  \A o \in Calls :
    orders[o].status # "none"
      => (orders[o].paymentId # 0 <=> orders[o].status = "PAYMENT_SUCCESS")

\* C18: while the breaker is CLOSED every fire() invokes send; a failure that
\* brings the failure rate of the window to 50% or more opens the breaker in
\* the same step; and the breaker opens from CLOSED only at such a rate.
C18_OpensAtThreshold ==
  [][breaker.state = "CLOSED"
       => /\ \A c \in Slots :
               (call[c].pc = "fire" /\ call'[c].pc # "fire") => call'[c].sends = 1
          /\ (/\ breaker'.failures = breaker.failures + 1
              /\ breaker'.failures * 100 >= errorThresholdPercentage * breaker'.fires)
               => breaker'.state = "OPEN"
          /\ breaker'.state = "OPEN"
               => breaker'.failures * 100 >= errorThresholdPercentage * breaker'.fires]_vars

\* C19: while the breaker is HALF_OPEN at most one call has invoked send since
\* the reset timeout elapsed, the trial is taken exactly when one has, and a
\* call that fired in HALF_OPEN without invoking send was rejected.
C19_OneTrialWhileHalfOpen ==
  /\ breaker.state = "HALF_OPEN"
       => /\ breaker.trials <= 1
          /\ breaker.pendingClose <=> breaker.trials = 0
  /\ \A c \in Slots :
       (call[c].firedIn = "HALF_OPEN" /\ call[c].sends = 0)
         => call[c].dispatch = "rejected"

\* Two calls fired while HALF_OPEN: one awaits the response to its send, the
\* other was rejected without sending.
C19_Witness ==
  /\ breaker.state = "HALF_OPEN"
  /\ \E c, d \in Slots :
       /\ c # d
       /\ call[c].firedIn = "HALF_OPEN" /\ call[c].sends = 1 /\ call[c].pc = "await"
       /\ call[d].firedIn = "HALF_OPEN" /\ call[d].sends = 0
       /\ call[d].dispatch = "rejected"

\* C20: when the outcome of the HALF_OPEN trial arrives, a response closes the
\* breaker with the counters of its window at zero, and a failed send or a
\* timeout opens it again.
C20_TrialDecides ==
  [][\A c \in Slots :
       (breaker.state = "HALF_OPEN" /\ call'[c].firedIn = "HALF_OPEN"
          /\ call[c].pc \in {"fire", "await"} /\ call'[c].pc \notin {"fire", "await"}
          /\ call'[c].sends = 1)
         => /\ call'[c].dispatch \in {"SUCCESS", "FAILED"}
                 => /\ breaker'.state = "CLOSED"
                    /\ breaker'.fires = 0 /\ breaker'.failures = 0
            /\ call'[c].dispatch \in {"transport", "timeout"}
                 => breaker'.state = "OPEN"]_vars

\* C21: resetBreaker(name) of an existing breaker leaves it CLOSED with the
\* counters of its window at zero and answers success; of an unknown name it
\* answers not-found and leaves the breaker as it was.
C21_ResetClosesAndClears ==
  [][\A name \in BreakerNames :
       resetBreaker(name)
         => IF name \in breakers
            THEN /\ breaker'.state = "CLOSED"
                 /\ breaker'.fires = 0 /\ breaker'.failures = 0
            ELSE breaker' = breaker]_vars

\* C22: an envelope whose failure reason is "Insufficient funds" is never
\* promoted, whatever its attempt count and age: it is never on the retry
\* queue, never re-delivered to payment_queue, and every evaluation of it
\* ends with the verdict "manual".
C22_InsufficientFundsNeverPromoted ==
  /\ \A i \in 1..Len(payment_retry_queue) :
       payment_retry_queue[i].message.failureReason # "Insufficient funds"
  /\ \A m \in payment_queue :
       "failureReason" \in DOMAIN m => m.failureReason # "Insufficient funds"
  /\ \A r \in evaluated :
       r.message.failureReason = "Insufficient funds" => r.verdict = "manual"

\* A first-attempt "Insufficient funds" envelope, inside the retry window, has
\* been evaluated.
C22_Witness ==
  \E r \in evaluated :
    /\ r.message.failureReason = "Insufficient funds"
    /\ r.message.attemptCount = 1
    /\ r.at - r.message.firstAttemptAt < maxRetryWindow
    /\ r.verdict = "manual"

\* C23: a promoted request is followed up until it is paid or permanent: once
\* nothing is left on payment_dlq and payment_retry_queue, and no broker
\* operation has failed, the order of every promoted envelope has a
\* process_payment request waiting at the payment service, a SUCCESS payment,
\* or an envelope that was evaluated again and ended with the verdict "manual".
C23_RetriedThenPermanent ==
  (payment_dlq = <<>> /\ payment_retry_queue = <<>> /\ faults = 0)
    => \A r \in evaluated :
         r.verdict = "retry"
           => \/ \E m \in payment_queue \cap Requests : m.orderId = r.message.orderId
              \/ SuccessRecords(r.message.orderId) # {}
              \/ \E r2 \in evaluated :
                    /\ r2.message.orderId = r.message.orderId
                    /\ r2.verdict = "manual"

\* C24: an envelope the evaluation finds ineligible stays on payment_dlq: the
\* step that evaluates it leaves it in the queue and promotes nothing.
C24_IneligibleRetained ==
  [][\A sent \in BOOLEAN :
       (consumeDLQ(sent) /\ ~shouldRetryPayment(Head(payment_dlq)))
         => /\ \E i \in 1..Len(payment_dlq') : payment_dlq'[i] = Head(payment_dlq)
            /\ payment_retry_queue' = payment_retry_queue]_vars

\* C25: after reprocessDLQMessage(orderId) for an order whose envelope has been
\* evaluated, whatever the verdict, a message of that order is in the retry
\* path: on payment_retry_queue or on payment_queue.
C25_ReprocessRequeues ==
  [][\A orderId \in DlqOrders :
       (reprocessDLQMessage(orderId)
          /\ \E r \in evaluated : r.message.orderId = orderId)
         => \/ \E i \in 1..Len(payment_retry_queue') :
                 payment_retry_queue'[i].message.orderId = orderId
            \/ \E m \in payment_queue' : m.orderId = orderId]_vars

\* Deliveries acknowledged among the messages of the calls 1..n.
RECURSIVE Acks(_)
Acks(n) == IF n = 0 THEN 0 ELSE Acks(n - 1) + settled[n].acks

\* C26: every process_payment message is delivered at most once and each
\* delivery is settled exactly once, by an ack when processPayment returned (one
\* payment row per ack) or by a reject that does not requeue; a message a call
\* has sent is either still waiting in payment_queue or delivered and settled.
C26_SettledExactlyOnce ==
  /\ \A k \in Calls :
       /\ settled[k].deliveries <= 1
       /\ settled[k].acks + settled[k].nacks = settled[k].deliveries
       /\ settled[k].requeues = 0
       /\ \A m \in payment_queue \cap Requests : m.call = k => settled[k].deliveries = 0
  /\ \A c \in Slots :
       (call[c].pc = "await" \/ call[c].dispatch \in {"SUCCESS", "FAILED", "timeout"})
         => \/ [call |-> call[c].id, orderId |-> call[c].orderId,
                amount |-> call[c].amount] \in payment_queue
            \/ settled[call[c].id].deliveries = 1
  /\ Acks(MaxCalls) = Len(payments)

\* One delivery was acknowledged and another was rejected.
C26_Witness ==
  \E j, k \in Calls :
    /\ settled[j].acks = 1 /\ settled[j].nacks = 0
    /\ settled[k].nacks = 1 /\ settled[k].acks = 0

\* C27: when the outcome of a retryPayment dispatch arrives, SUCCESS gives the
\* call the status PAYMENT_SUCCESS and the payment reference; any other
\* outcome gives it PAYMENT_FAILED with the stock restoration next, and in the
\* same step an envelope of the order is placed on payment_dlq.
C27_RetryHandlesLikeCreate ==
  [][\A c \in Slots :
       (call[c].kind = "retry" /\ call[c].dispatch = "" /\ call'[c].dispatch # "")
         => IF call'[c].dispatch = "SUCCESS"
            THEN /\ call'[c].status = "PAYMENT_SUCCESS"
                 /\ call'[c].paymentId # 0
            ELSE /\ call'[c].status = "PAYMENT_FAILED"
                 /\ call'[c].pc = "inc_find"
                 /\ Len(payment_dlq') = Len(payment_dlq) + 1
                 /\ payment_dlq'[Len(payment_dlq')].orderId = call[c].orderId]_vars

C29_AgreesWithReference ==
  \A r \in evaluated :
    r.verdict = "retry"
      <=> /\ r.message.attemptCount < 3
          /\ r.at - r.message.firstAttemptAt < 3600000
          /\ SubSeq(r.message.failureReason, 1, 7) # "Invalid"
          /\ r.message.failureReason # "Insufficient funds"

\* C30: the message a promotion places on payment_retry_queue is the consumed
\* envelope with attemptCount one higher and orderId, paymentRequest,
\* failureReason and firstAttemptAt unchanged; and an envelope arrives on
\* payment_queue only from the head of payment_retry_queue, 30 s or more after
\* it was placed there.
C30_RetryEnvelopeAndBackoff ==
  [][/\ Len(payment_retry_queue') = Len(payment_retry_queue) + 1
          => LET old == Head(payment_dlq)
                 new == payment_retry_queue'[Len(payment_retry_queue')]
             IN /\ new.message.attemptCount = old.attemptCount + 1
                /\ new.message.orderId = old.orderId
                /\ new.message.paymentRequest = old.paymentRequest
                /\ new.message.failureReason = old.failureReason
                /\ new.message.firstAttemptAt = old.firstAttemptAt
                /\ new.enqueuedAt = clock
     /\ \A m \in payment_queue' \ payment_queue :
          "failureReason" \in DOMAIN m
            => /\ payment_retry_queue # <<>>
               /\ Head(payment_retry_queue).message = m
               /\ clock - Head(payment_retry_queue).enqueuedAt >= 30000]_vars

\* A retry envelope with attemptCount 2 has been re-delivered to payment_queue,
\* 30 s or more after its promotion.
C30_Witness ==
  \E m \in payment_queue :
    /\ "failureReason" \in DOMAIN m
    /\ m.attemptCount = 2
    /\ clock - m.lastAttemptAt >= 30000

\* C31: the dead-letter consumer settles every delivery it takes from
\* payment_dlq (acknowledges or rejects it), whatever the content: no delivery
\* is left unacknowledged.
C31_EveryDeliverySettled == unacked = <<>>

\* C32: createBreaker called with a name that already has a breaker changes
\* nothing of that breaker (state and counters stay as they are) and says so,
\* a name is registered once it has been created, and every dispatch of a
\* createOrder or retryPayment call is counted by the one 'payment-service'
\* breaker.
C32_OneBreakerPerName ==
  [][/\ \A name \in BreakerNames :
          (createBreaker(name) /\ name \in Registered)
            => /\ breaker' = breaker
               /\ \E r \in operator_log' \ operator_log : r.result
     /\ \A name \in BreakerNames : createBreaker(name) => name \in Registered'
     /\ \A c \in Slots :
          (call[c].pc = "fire" /\ call'[c].pc # "fire")
            => breaker'.fires = breaker.fires + 1]_vars

\* createBreaker('payment-service') has been called after the breaker had
\* counted a dispatch of a createOrder call and one of a retryPayment call.
C32_Witness ==
  /\ \E r \in operator_log :
       r.op = "createBreaker" /\ r.name = "payment-service" /\ r.fires > 0
  /\ \E c \in Slots : call[c].kind = "retry" /\ call[c].firedIn # ""
  /\ breaker.fires > 0

\* C33: a decrementStock that finds less stock than asked fails and leaves the
\* stored quantity as it is; one that saves leaves the stored quantity lower by
\* exactly the quantity, and an incrementStock that saves leaves it higher by
\* exactly the quantity.
C33_StockMovesByQuantity ==
  [][\A c \in Slots :
       LET p == call[c].productCode
           q == call[c].quantity
       IN /\ (decrementStock_find(c) /\ call'[c].pc # "dec_save")
               => stockQuantity' = stockQuantity
          /\ decrementStock_save(c, TRUE) => stockQuantity'[p] = stockQuantity[p] - q
          /\ incrementStock_save(c, TRUE) => stockQuantity'[p] = stockQuantity[p] + q]_vars

\* C34: at rest (no call in progress, no request waiting at the payment
\* service), and even when no store operation has failed, an order with a
\* SUCCESS payment row is in PAYMENT_SUCCESS and its reserved quantity has not
\* been restored.
C34_StoresAgreeAtRest ==
  ((\A c \in Slots : ~Active(c)) /\ payment_queue \cap Requests = {} /\ faults = 0)
    => \A o \in Calls :
         SuccessRecords(o) # {}
           => /\ orders[o].status = "PAYMENT_SUCCESS"
              /\ orders[o].restored < orders[o].reserved

\* C35: when createOrder has raised an error, even with no store operation
\* failing, the order row the call created is not left PENDING or
\* PAYMENT_PROCESSING, and the stock is what it was before the call unless
\* another call wrote it meanwhile.
C35_ErrorLeavesNothing ==
  \A c \in Slots :
    (call[c].kind = "create" /\ call[c].pc = "threw" /\ faults = 0)
      => /\ call[c].orderId \in Calls
              => orders[call[c].orderId].status \notin {"PENDING", "PAYMENT_PROCESSING"}
         /\ ~call[c].interfered
              => stockQuantity[call[c].productCode] = call[c].stockBefore

\* C36: the dead-letter consumer acknowledges an envelope it judged eligible
\* for retry only when the retry envelope has been placed on
\* payment_retry_queue.
C36_AckedOnlyIfPromoted ==
  [][(/\ payment_dlq # <<>>
      /\ ~Throws(Head(payment_dlq))
      /\ shouldRetryPayment(Head(payment_dlq))
      /\ payment_dlq' = Tail(payment_dlq))
       => payment_retry_queue' =
            Append(payment_retry_queue,
                   [message |-> RetryMessage(Head(payment_dlq)), enqueuedAt |-> clock])]_vars

====
